---------------------------- MODULE Spec2Model ----------------------------
(***************************************************************************)
(* kata-ctl command line surface (src/tools/kata-ctl/src/args.rs).         *)
(*                                                                         *)
(* args.rs declares the grammar with clap 3 derive attributes              *)
(* (#[clap(...)], takes_value = true); the parser that interprets the      *)
(* declarations is the one the derives generate.  The model keeps the      *)
(* declarations as tables (Subcommands, ArgsOf, ...) and runs the          *)
(* generated parser over them one token at a time.                         *)
(*                                                                         *)
(* A token is a sequence of lexical atoms: "--" and "-" prefixes, "=",     *)
(* single characters of a short cluster, decimal digits, and opaque        *)
(* words.  <<>> is the empty string.                                       *)
(***************************************************************************)
EXTENDS Integers, Sequences, FiniteSets, TLC

VARIABLES argv,      \* tokens handed to the parser so far
          unread,    \* tokens of the vector left unread after the outcome
          cmd,       \* path of matched (sub)commands, root = <<>>
          mode,      \* "args" | "helpsub" (inside `help ...`)
          pend,      \* <<>> or <<id>>: option waiting for its value
          trailing,  \* TRUE once `--` was seen in the current command
          posCounter,\* index of the next positional
          matcher,   \* arg id -> [occ, vals] for the current command
          seen,      \* ids of the matched arguments, in order of appearance
          outcome,   \* <<>> while parsing, else <<result>>
          eof,       \* TRUE when the outcome was decided at the end of argv
          conv       \* <<>> or <<[arg, res]>>: a from_str call and its result

vars == <<argv, unread, cmd, mode, pend, trailing, posCounter, matcher,
          seen, outcome, eof, conv>>

\* Most tokens of a vector explored behind its command words.
MaxArgs == 3

-----------------------------------------------------------------------------
(* Declarations *)

\* Commands: variant -> kebab-case name, the derive's renaming.
Verbs ==
  [Check |-> "check", DirectVolume |-> "direct-volume", Env |-> "env",
   Exec |-> "exec", Factory |-> "factory", Iptables |-> "iptables",
   Metrics |-> "metrics", Version |-> "version"]

\* The check subcommands with `list` under another name.
CheckSubCommandRenamed ==
  [All |-> "all", NoNetworkChecks |-> "no-network-checks",
   CheckVersionOnly |-> "check-version-only",
   OnlyListReleases |-> "only-list-releases",
   IncludeAllReleases |-> "include-all-releases", List |-> "list-checks"]

CheckSubCommand ==
  [All |-> "all", NoNetworkChecks |-> "no-network-checks",
   CheckVersionOnly |-> "check-version-only",
   OnlyListReleases |-> "only-list-releases",
   IncludeAllReleases |-> "include-all-releases", List |-> "list"]

MetricsSubCommand == [MetricsArgs |-> "metrics-args"]

IpTablesArguments == [Get |-> "get", Set |-> "set"]

DirectVolSubcommand ==
  [Add |-> "add", Remove |-> "remove", Stats |-> "stats", Resize |-> "resize"]

NoSub == [x \in {} |-> ""]

\* The subcommand table of the command at `path` (a path of variant names).
Subcommands(path) ==
  IF path = <<>> THEN Verbs
  ELSE IF path = <<"Check">> THEN CheckSubCommand
  ELSE IF path = <<"DirectVolume">> THEN DirectVolSubcommand
  ELSE IF path = <<"Iptables">> THEN IpTablesArguments
  ELSE IF path = <<"Metrics">> THEN MetricsSubCommand
  ELSE NoSub

\* A non-Option #[clap(subcommand)] field: the subcommand is required.
SubcommandRequired(path) == DOMAIN Subcommands(path) # {}

\* Variant whose name is `word` under `path`; <<>> when there is none.
FindSubcommand(path, word) ==
  LET tbl == Subcommands(path)
      hit == {v \in DOMAIN tbl : <<tbl[v]>> = word}
  IN IF hit = {} THEN <<>> ELSE <<CHOOSE v \in hit : TRUE>>

Digits == {"0", "1", "2", "3", "4", "5", "6", "7", "8", "9"}

U32Max == <<"4","2","9","4","9","6","7","2","9","5">>
U64Max == <<"1","8","4","4","6","7","4","4","0","7","3","7","0","9","5","5",
            "1","6","1","5">>

\* A default port that is not the documented one.
DefaultVportOther == <<"1","0","2","4">>

DefaultVport == <<"1","0","2","6">>

\* kind: "flag" (bool), "opt" (takes a value), "pos" (positional).
\* ty: "bool" | "string" | "option_string" | "u32" | "u64".
\* dflt: <<>> or <<default text>>.
Arg(id, kind, long, short, index, required, ty, dflt) ==
  [id |-> id, kind |-> kind, long |-> long, short |-> short, index |-> index,
   required |-> required, ty |-> ty, dflt |-> dflt]

EnvArgument ==
  { Arg("json", "flag", "json", "", 0, FALSE, "bool", <<>>),
    Arg("file", "opt", "file", "f", 0, FALSE, "option_string", <<>>) }

ExecArguments ==
  { Arg("sandbox_id", "pos", "", "", 1, TRUE, "string", <<>>),
    Arg("vport", "opt", "kata-debug-port", "p", 0, FALSE, "u32",
        <<DefaultVport>>) }

\* --sand-box declared with an empty default instead of required.
IpTablesGetDefaulted ==
  { Arg("sandbox_id", "opt", "sand-box", "", 0, FALSE, "string", << <<>> >>),
    Arg("v6", "flag", "v6", "", 0, FALSE, "bool", <<>>) }

IpTablesGet ==
  { Arg("sandbox_id", "opt", "sand-box", "", 0, TRUE, "string", <<>>),
    Arg("v6", "flag", "v6", "", 0, FALSE, "bool", <<>>) }

IpTablesSet ==
  IpTablesGet \cup { Arg("file", "pos", "", "", 1, TRUE, "string", <<>>) }

DirectVolAddArgs ==
  { Arg("volume_path", "pos", "", "", 1, TRUE, "string", <<>>),
    Arg("mount_info", "pos", "", "", 2, TRUE, "string", <<>>) }

DirectVolRemoveArgs ==
  { Arg("volume_path", "pos", "", "", 1, TRUE, "string", <<>>) }

DirectVolStatsArgs ==
  { Arg("volume_path", "pos", "", "", 1, TRUE, "string", <<>>) }

DirectVolResizeArgs ==
  { Arg("volume_path", "pos", "", "", 1, TRUE, "string", <<>>),
    Arg("resize_size", "pos", "", "", 2, TRUE, "u64", <<>>) }

\* The arguments declared by the command at `path`.
ArgsOf(path) ==
  IF path = <<"Env">> THEN EnvArgument
  ELSE IF path = <<"Exec">> THEN ExecArguments
  ELSE IF path = <<"Iptables", "Get">> THEN IpTablesGet
  ELSE IF path = <<"Iptables", "Set">> THEN IpTablesSet
  ELSE IF path = <<"DirectVolume", "Add">> THEN DirectVolAddArgs
  ELSE IF path = <<"DirectVolume", "Remove">> THEN DirectVolRemoveArgs
  ELSE IF path = <<"DirectVolume", "Stats">> THEN DirectVolStatsArgs
  ELSE IF path = <<"DirectVolume", "Resize">> THEN DirectVolResizeArgs
  ELSE {}

ArgIds(path) == {a.id : a \in ArgsOf(path)}
ArgById(path, id) == CHOOSE a \in ArgsOf(path) : a.id = id


-----------------------------------------------------------------------------
(* Lexing of one token (what the generated parser asks of each raw argument) *)

\* `--` alone: everything after it is positional.
IsEscape(t) == t = <<"--">>

\* `--name` or `--name=value`.
IsLong(t) == Len(t) >= 2 /\ t[1] = "--"
LongName(t) == t[2]
LongHasEq(t) == Len(t) >= 3 /\ t[3] = "="
LongValue(t) == SubSeq(t, 4, Len(t))

\* `-c...`: a cluster of short flags; a lone `-` is a plain value.
IsShort(t) == Len(t) >= 2 /\ t[1] = "-"
ShortChar(t) == t[2]
ShortRest(t) == SubSeq(t, 3, Len(t))

\* Value attached to a short option: `-p5`, `-p=5`.
ShortValue(t) ==
  LET rest == ShortRest(t)
  IN IF rest # <<>> /\ rest[1] = "=" THEN Tail(rest) ELSE rest

-----------------------------------------------------------------------------
(* Conversion of a value to an unsigned integer (u32 / u64 fields).  The    *)
(* result is kept as a decimal numeral without leading zeros, since the     *)
(* fields are wider than the integers TLC computes with.                    *)

DigitVal(c) ==
  CASE c = "0" -> 0 [] c = "1" -> 1 [] c = "2" -> 2 [] c = "3" -> 3
    [] c = "4" -> 4 [] c = "5" -> 5 [] c = "6" -> 6 [] c = "7" -> 7
    [] c = "8" -> 8 [] c = "9" -> 9

RECURSIVE StripZeros(_)
StripZeros(d) ==
  IF Len(d) > 1 /\ d[1] = "0" THEN StripZeros(Tail(d)) ELSE d

\* a <= b for numerals without leading zeros.
RECURSIVE NumLeq(_, _)
NumLeq(a, b) ==
  IF Len(a) # Len(b) THEN Len(a) < Len(b)
  ELSE IF a = <<>> THEN TRUE
  ELSE IF a[1] # b[1] THEN DigitVal(a[1]) < DigitVal(b[1])
  ELSE NumLeq(Tail(a), Tail(b))

\* Every unsigned field given the widest maximum.
MaxOfWidest(ty) == U64Max

MaxOf(ty) == IF ty = "u32" THEN U32Max ELSE U64Max

\* <<>> on failure, <<numeral>> on success: an optional leading `+`, then at
\* least one digit and only digits, and the value must not exceed the maximum
\* of the type.
ParseUnsigned(s, ty) ==
  LET body == IF s # <<>> /\ s[1] = "+" THEN Tail(s) ELSE s
  IN IF body = <<>> \/ \E i \in 1..Len(body) : body[i] \notin Digits
     THEN <<>>
     ELSE IF NumLeq(StripZeros(body), MaxOf(ty)) THEN <<StripZeros(body)>>
     ELSE <<>>

\* The validator attached to a value of type `ty`.
ValueOk(v, ty) == ty \notin {"u32", "u64"} \/ ParseUnsigned(v, ty) # <<>>

-----------------------------------------------------------------------------
(* impl FromStr for IpTablesArguments *)

Value(tag, fields) == [tag |-> tag, fields |-> fields]

\* A conversion that also takes the command line spellings.
FromStrAnyCase(s) ==
  IF s \in {"Get", "get", "GET"}
  THEN [ok |-> TRUE, err |-> <<>>,
        val |-> Value(<<"Iptables", "Get">>,
                      [sandbox_id |-> <<>>, v6 |-> FALSE])]
  ELSE IF s \in {"Set", "set", "SET"}
  THEN [ok |-> TRUE, err |-> <<>>,
        val |-> Value(<<"Iptables", "Set">>,
                      [sandbox_id |-> <<>>, v6 |-> FALSE, file |-> <<>>])]
  ELSE [ok |-> FALSE, err |-> <<"Invalid argument: ", s>>,
        val |-> Value(<<>>, <<>>)]

FromStr(s) ==
  IF s = "Get"
  THEN [ok |-> TRUE, err |-> <<>>,
        val |-> Value(<<"Iptables", "Get">>,
                      [sandbox_id |-> <<>>, v6 |-> FALSE])]
  ELSE IF s = "Set"
  THEN [ok |-> TRUE, err |-> <<>>,
        val |-> Value(<<"Iptables", "Set">>,
                      [sandbox_id |-> <<>>, v6 |-> FALSE, file |-> <<>>])]
  ELSE [ok |-> FALSE, err |-> <<"Invalid argument: ", s>>,
        val |-> Value(<<>>, <<>>)]

-----------------------------------------------------------------------------
(* Outcomes of a run *)

ExitOk == 0
ExitUsage == 2

NoValue == Value(<<>>, <<>>)

\* A parsed invocation, handed to the dispatcher; the process goes on.
Parsed(inv) ==
  [kind |-> "ok", diag |-> "", exit |-> <<>>, stream |-> "", text |-> "",
   inv |-> inv]

\* A message on standard error and a non-zero exit.  A missing subcommand
\* prints the help text of the command as that message.
Usage(diag) ==
  [kind |-> "usage", diag |-> diag, exit |-> <<ExitUsage>>,
   stream |-> "stderr",
   text |-> IF diag = "MissingSubcommand" THEN "help" ELSE "error",
   inv |-> NoValue]

\* -h / --help / help: the help text on standard output and exit 0.
HelpOut ==
  [kind |-> "help", diag |-> "DisplayHelp", exit |-> <<ExitOk>>,
   stream |-> "stdout", text |-> "help", inv |-> NoValue]

-----------------------------------------------------------------------------
(* The parser of one command.  Its state is a record                        *)
(*   cmd, mode, pend, trailing, pos, m, seen, out                           *)
(* and each operator below maps a state and a token to the next state.      *)

EmptyMatcher(path) == [id \in ArgIds(path) |-> [occ |-> 0, vals |-> <<>>]]

StartParser ==
  [cmd |-> <<>>, mode |-> "args", pend |-> <<>>, trailing |-> FALSE,
   pos |-> 1, m |-> EmptyMatcher(<<>>), seen |-> <<>>, out |-> <<>>]

\* Every command that has subcommands also gets the `help` subcommand.
HasHelpSubcommand(path) == SubcommandRequired(path)

Fail(p, diag) == [p EXCEPT !.out = <<Usage(diag)>>]

ShowHelp(p) == [p EXCEPT !.out = <<HelpOut>>]

\* parse_subcommand: the rest of the vector belongs to the subcommand.
EnterSubcommand(p, variant) ==
  [cmd |-> Append(p.cmd, variant), mode |-> "args", pend |-> <<>>,
   trailing |-> FALSE, pos |-> 1,
   m |-> EmptyMatcher(Append(p.cmd, variant)), seen |-> <<>>, out |-> <<>>]

\* One more occurrence of argument `id`, with the values `vs` it brought.
Occurrence(p, id, vs) ==
  [p EXCEPT !.m[id] = [occ |-> @.occ + 1, vals |-> @.vals \o vs],
            !.seen = IF p.m[id].occ = 0 THEN Append(@, id) ELSE @]

\* A token nothing at this command accepts.
MatchArgError(p) ==
  IF ArgsOf(p.cmd) = {}
  THEN Fail(p, IF p.cmd = <<>> THEN "UnknownVerb"
               ELSE IF SubcommandRequired(p.cmd) THEN "UnknownSubcommand"
               ELSE "UnexpectedArgument")
  ELSE Fail(p, "UnexpectedArgument")

\* `help [sub [sub ...]]`: every following token names a subcommand.
ParseHelpSubcommand(p, t) ==
  LET hit == FindSubcommand(p.cmd, t)
  IN IF hit # <<>> THEN [p EXCEPT !.cmd = Append(p.cmd, hit[1])]
     ELSE IF t = <<"help">> /\ HasHelpSubcommand(p.cmd)
     THEN [p EXCEPT !.cmd = Append(p.cmd, "help")]
     ELSE Fail(p, "UnknownSubcommand")

\* --name / --name=value.  Long names match exactly.
ParseLongArg(p, t) ==
  LET name == LongName(t)
      hit == {a \in ArgsOf(p.cmd) : a.long = name}
  IN IF name = "help"
     THEN IF LongHasEq(t) THEN Fail(p, "UnexpectedArgument") ELSE ShowHelp(p)
     ELSE IF hit = {} THEN Fail(p, "UnknownFlag")
     ELSE LET a == CHOOSE x \in hit : TRUE
          IN IF a.kind = "opt"
             THEN IF LongHasEq(t)
                  THEN [Occurrence(p, a.id, <<LongValue(t)>>)
                          EXCEPT !.pend = <<>>]
                  ELSE [Occurrence(p, a.id, <<>>) EXCEPT !.pend = <<a.id>>]
             ELSE IF LongHasEq(t) THEN Fail(p, "UnexpectedArgument")
             ELSE [Occurrence(p, a.id, <<>>) EXCEPT !.pend = <<>>]

\* Short flags without -h.
ParseShortArgNoHelp(p, t) ==
  LET c == ShortChar(t)
      hit == {a \in ArgsOf(p.cmd) : a.short = c}
  IN IF hit = {} THEN Fail(p, "UnknownFlag")
     ELSE LET a == CHOOSE x \in hit : TRUE
          IN IF ShortRest(t) = <<>>
             THEN [Occurrence(p, a.id, <<>>) EXCEPT !.pend = <<a.id>>]
             ELSE [Occurrence(p, a.id, <<ShortValue(t)>>)
                     EXCEPT !.pend = <<>>]

\* -c, -cvalue, -c=value.  The only short flag without a value is -h, so a
\* cluster is decided by its first character.
ParseShortArg(p, t) ==
  LET c == ShortChar(t)
      hit == {a \in ArgsOf(p.cmd) : a.short = c}
  IN IF c = "h" THEN ShowHelp(p)
     ELSE IF hit = {} THEN Fail(p, "UnknownFlag")
     ELSE LET a == CHOOSE x \in hit : TRUE
          IN IF ShortRest(t) = <<>>
             THEN [Occurrence(p, a.id, <<>>) EXCEPT !.pend = <<a.id>>]
             ELSE [Occurrence(p, a.id, <<ShortValue(t)>>)
                     EXCEPT !.pend = <<>>]

\* The value of the option that is waiting for one.
ParseOptValue(p, t) ==
  [p EXCEPT !.m[p.pend[1]].vals = Append(@, t), !.pend = <<>>]

\* A positional nobody declared is dropped.
ParsePositionalLenient(p, t) ==
  LET hit == {a \in ArgsOf(p.cmd) : a.kind = "pos" /\ a.index = p.pos}
  IN IF hit = {} THEN p
     ELSE LET a == CHOOSE x \in hit : TRUE
          IN [Occurrence(p, a.id, <<t>>)
                EXCEPT !.pos = @ + 1, !.pend = <<>>]

\* Positionals filled from the last declared index backwards.
ParsePositionalReversed(p, t) ==
  LET n == Cardinality({a \in ArgsOf(p.cmd) : a.kind = "pos"})
      hit == {a \in ArgsOf(p.cmd) :
                a.kind = "pos" /\ a.index = n + 1 - p.pos}
  IN IF hit = {} THEN MatchArgError(p)
     ELSE LET a == CHOOSE x \in hit : TRUE
          IN [Occurrence(p, a.id, <<t>>)
                EXCEPT !.pos = @ + 1, !.pend = <<>>]

\* A positional: the next declared index takes it, or it is unexpected.
ParsePositional(p, t) ==
  LET hit == {a \in ArgsOf(p.cmd) : a.kind = "pos" /\ a.index = p.pos}
  IN IF hit = {} THEN MatchArgError(p)
     ELSE LET a == CHOOSE x \in hit : TRUE
          IN [Occurrence(p, a.id, <<t>>)
                EXCEPT !.pos = @ + 1, !.pend = <<>>]

\* One iteration of the parse loop on token t.
ParseToken(p, t) ==
  IF p.mode = "helpsub" THEN ParseHelpSubcommand(p, t)
  ELSE IF p.trailing THEN ParsePositional(p, t)
  ELSE IF p.pend = <<>> /\ FindSubcommand(p.cmd, t) # <<>>
  THEN EnterSubcommand(p, FindSubcommand(p.cmd, t)[1])
  ELSE IF p.pend = <<>> /\ t = <<"help">> /\ HasHelpSubcommand(p.cmd)
  THEN [p EXCEPT !.mode = "helpsub"]
  ELSE IF IsEscape(t) THEN [p EXCEPT !.trailing = TRUE]
  ELSE IF IsLong(t) THEN ParseLongArg(p, t)
  ELSE IF IsShort(t) THEN ParseShortArg(p, t)
  ELSE IF p.pend # <<>> THEN ParseOptValue(p, t)
  ELSE ParsePositional(p, t)

-----------------------------------------------------------------------------
(* End of the vector: defaults, validation, construction of the value *)

\* add_defaults: an absent argument with a default gets the default text.
AddDefaults(path, m) ==
  [id \in DOMAIN m |->
     IF m[id].occ = 0 /\ ArgById(path, id).dflt # <<>>
     THEN [occ |-> 0, vals |-> ArgById(path, id).dflt]
     ELSE m[id]]

\* A required argument that never occurred.
MissingRequired(path, m) ==
  \E a \in ArgsOf(path) : a.required /\ a.dflt = <<>> /\ m[a.id].occ = 0

\* What is wrong with one matched argument, "" when nothing is: no value, a
\* value its type rejects, or a flag/option used more than once.
ArgError(a, e) ==
  IF a.kind # "flag" /\ e.vals = <<>> THEN "EmptyValue"
  ELSE IF \E i \in 1..Len(e.vals) : ~ValueOk(e.vals[i], a.ty)
  THEN "InvalidValue"
  ELSE IF a.kind # "pos" /\ e.occ > 1 THEN "MultipleUsage"
  ELSE ""

\* The first error among the matched arguments, in order of appearance.
RECURSIVE MatchedArgsError(_, _, _)
MatchedArgsError(path, m, ids) ==
  IF ids = <<>> THEN ""
  ELSE LET d == ArgError(ArgById(path, ids[1]), m[ids[1]])
       IN IF d # "" THEN d ELSE MatchedArgsError(path, m, Tail(ids))

\* The validator of one command: "" when the matches are valid.
Validate(p) ==
  IF p.pend # <<>> /\ p.m[p.pend[1]].vals = <<>> THEN "EmptyValue"
  ELSE IF SubcommandRequired(p.cmd) THEN "MissingSubcommand"
  ELSE IF MissingRequired(p.cmd, p.m) THEN "MissingRequired"
  ELSE MatchedArgsError(p.cmd, p.m, p.seen)

\* The field built from the matches of argument a.
FieldValue(a, e) ==
  IF a.ty = "bool" THEN e.occ > 0
  ELSE IF a.ty = "option_string"
  THEN (IF e.vals = <<>> THEN <<>> ELSE <<e.vals[1]>>)
  ELSE IF a.ty = "string" THEN e.vals[1]
  ELSE ParseUnsigned(e.vals[1], a.ty)[1]

\* Why a field cannot be built, "" when it can.
FieldError(a, e) ==
  IF a.ty \in {"bool", "option_string"} THEN ""
  ELSE IF e.vals = <<>> THEN "MissingRequired"
  ELSE IF ~ValueOk(e.vals[1], a.ty) THEN "InvalidValue"
  ELSE ""

\* from_arg_matches that builds only the required fields.
FromArgMatchesRequiredOnly(path, m) ==
  Value(path, [id \in {a.id : a \in {x \in ArgsOf(path) : x.required}} |->
                 FieldValue(ArgById(path, id), m[id])])

\* from_arg_matches of the derives: the variant named by the command path,
\* with every declared field.
FromArgMatches(path, m) ==
  Value(path, [id \in ArgIds(path) |-> FieldValue(ArgById(path, id), m[id])])

FromArgMatchesError(path, m) ==
  LET bad == {a \in ArgsOf(path) : FieldError(a, m[a.id]) # ""}
  IN IF bad = {} THEN ""
     ELSE FieldError(CHOOSE a \in bad : TRUE, m[(CHOOSE a \in bad : TRUE).id])

\* The outcome when the vector ends in state p.
Finish(p) ==
  IF p.mode = "helpsub" THEN HelpOut
  ELSE LET m == AddDefaults(p.cmd, p.m)
           d == Validate(p)
       IN IF d # "" THEN Usage(d)
          ELSE IF FromArgMatchesError(p.cmd, m) # ""
          THEN Usage(FromArgMatchesError(p.cmd, m))
          ELSE Parsed(FromArgMatches(p.cmd, m))

-----------------------------------------------------------------------------
(* The argument vectors explored *)

Range(f) == {f[x] : x \in DOMAIN f}

CommandWords ==
  { <<w>> : w \in Range(Verbs) \cup Range(CheckSubCommand)
              \cup Range(DirectVolSubcommand) \cup Range(IpTablesArguments)
              \cup Range(MetricsSubCommand) }

\* Tokens that are words, values and numerals rather than flags.
ValueWords ==
  { <<"s1">>, <<>>, <<"2","0","4","8">>, <<"0","7">>, U32Max,
    <<"4","2","9","4","9","6","7","2","9","6">>, U64Max,
    <<"1","8","4","4","6","7","4","4","0","7","3","7","0","9","5","5",
      "1","6","1","6">> }

FlagTokens ==
  { <<"--">>, <<"-", "h">>, <<"--", "help">>, <<"--", "bogus">>,
    <<"-", "1">>,
    <<"--", "json">>, <<"--", "file">>, <<"-", "f">>,
    <<"--", "file", "=", "s1">>,
    <<"--", "v6">>, <<"--", "v6", "=", "s1">>,
    <<"--", "sand-box">>, <<"--", "sand-box", "=", "s1">>,
    <<"--", "sand-box", "=">>,
    <<"-", "p">>, <<"--", "kata-debug-port">>,
    <<"-", "p", "2", "0", "4", "8">>,
    <<"--", "kata-debug-port", "=", "-", "1">>,
    <<"-", "p", "=", "s1">> }

\* Depth of the command tree: a verb, and under some verbs a subcommand.
CommandDepth ==
  IF \E v \in DOMAIN Verbs : SubcommandRequired(<<v>>) THEN 2 ELSE 1

\* The tokens tried at position i of the vector.  Every command word, and
\* some words that are none, are tried where a command can be named; behind
\* that a word is only ever a value, and one command word stands for all.
Tokens(i) ==
  IF i <= CommandDepth
  THEN CommandWords \cup {<<"help">>, <<"bogus">>, <<"List">>}
         \cup ValueWords \cup FlagTokens
  ELSE {<<"help">>} \cup ValueWords \cup FlagTokens

\* Arguments handed to from_str by a caller.
FromStrInputs == {"Get", "Set", "get", "set", "GET", "SET", "", "Gets"}

-----------------------------------------------------------------------------
(* The run *)

Cur ==
  [cmd |-> cmd, mode |-> mode, pend |-> pend, trailing |-> trailing,
   pos |-> posCounter, m |-> matcher, seen |-> seen, out |-> outcome]

Install(q) ==
  /\ cmd' = q.cmd
  /\ mode' = q.mode
  /\ pend' = q.pend
  /\ trailing' = q.trailing
  /\ posCounter' = q.pos
  /\ matcher' = q.m
  /\ seen' = q.seen
  /\ outcome' = q.out

Init ==
  /\ argv = <<>>
  /\ unread = 0
  /\ cmd = StartParser.cmd
  /\ mode = StartParser.mode
  /\ pend = StartParser.pend
  /\ trailing = StartParser.trailing
  /\ posCounter = StartParser.pos
  /\ matcher = StartParser.m
  /\ seen = StartParser.seen
  /\ outcome = StartParser.out
  /\ eof = FALSE
  /\ conv = <<>>

\* A parser that goes on reading after a usage failure.
RunningAfterFailure ==
  /\ conv = <<>>
  /\ outcome = <<>> \/ outcome[1].kind = "usage"

\* The parser is still reading the vector: the first outcome ends the run.
Running == outcome = <<>> /\ conv = <<>>

\* The parser reads the next token of the vector.
Feed(t) ==
  /\ Running
  /\ Len(argv) - Len(cmd) < MaxArgs
  /\ argv' = Append(argv, t)
  /\ Install(ParseToken(Cur, t))
  /\ UNCHANGED <<unread, eof, conv>>

\* The vector is exhausted: validation and construction of the invocation.
EndOfArgs ==
  /\ Running
  /\ outcome' = <<Finish(Cur)>>
  /\ eof' = TRUE
  /\ UNCHANGED <<argv, unread, cmd, mode, pend, trailing, posCounter,
                 matcher, seen, conv>>

\* The run is over, whatever tokens of the vector are left: none is read.
Leftover ==
  /\ outcome # <<>>
  /\ ~eof
  /\ Len(argv) + unread - Len(cmd) < MaxArgs
  /\ unread' = unread + 1
  /\ UNCHANGED <<argv, cmd, mode, pend, trailing, posCounter, matcher, seen,
                 outcome, eof, conv>>

\* Some caller converts a string with IpTablesArguments::from_str.
FromStrCall(s) ==
  /\ argv = <<>>
  /\ Running
  /\ conv' = <<[arg |-> s, res |-> FromStr(s)]>>
  /\ UNCHANGED <<argv, unread, cmd, mode, pend, trailing, posCounter,
                 matcher, seen, outcome, eof>>

Next ==
  \/ \E t \in Tokens(Len(argv) + 1) : Feed(t)
  \/ EndOfArgs
  \/ Leftover
  \/ \E s \in FromStrInputs : FromStrCall(s)

Spec == Init /\ [][Next]_vars

\* The parser runs to completion without suspension.
FairSpec == Spec /\ WF_vars(Next)

-----------------------------------------------------------------------------
(* Reading a vector by the grammar of the command line, for the properties: *)
(* which tokens are flags, which are positionals, what value a flag got.    *)

Done == outcome # <<>>
Out == outcome[1]
Succeeded == Done /\ Out.kind = "ok"
Fields == Out.inv.fields
Tag == Out.inv.tag

HelpFlags == { <<"-", "h">>, <<"--", "help">> }

LooksLikeFlag(t) == Len(t) >= 2 /\ t[1] \in {"-", "--"}

\* Flags that take their value from the next token when none is attached.
BareOptions ==
  { <<"--", "file">>, <<"-", "f">>, <<"--", "sand-box">>, <<"-", "p">>,
    <<"--", "kata-debug-port">> }

\* The tokens behind the first n tokens of v.
After(v, n) == SubSeq(v, n + 1, Len(v))

\* Index of the first `--` of v, Len(v) + 1 when there is none.
EscapeAt(v) ==
  LET idx == {i \in 1..Len(v) : v[i] = <<"--">>}
  IN IF idx = {} THEN Len(v) + 1 ELSE CHOOSE i \in idx : \A j \in idx : i <= j

\* Token i of v is read as a flag: it precedes any `--`.
FlagAt(v, i) == i < EscapeAt(v) /\ LooksLikeFlag(v[i])

\* Token i of v is the value of the bare option before it.
OptionValueAt(v, i) ==
  /\ i > 1
  /\ i < EscapeAt(v)
  /\ ~LooksLikeFlag(v[i])
  /\ v[i - 1] \in BareOptions

\* Indices of the positional tokens of v, in order.
PositionalIndices(v) ==
  {i \in 1..Len(v) :
     \/ i > EscapeAt(v)
     \/ i < EscapeAt(v) /\ ~LooksLikeFlag(v[i]) /\ ~OptionValueAt(v, i)}

\* The k-th smallest element of a set of numbers.
RECURSIVE Nth(_, _)
Nth(S, k) ==
  LET lo == CHOOSE i \in S : \A j \in S : i <= j
  IN IF k = 1 THEN lo ELSE Nth(S \ {lo}, k - 1)

Positional(v, k) == v[Nth(PositionalIndices(v), k)]

\* Indices where one of the flags `keys` (<<dash, name>> pairs) occurs.
FlagIndices(v, keys) ==
  {i \in 1..Len(v) : FlagAt(v, i) /\ <<v[i][1], v[i][2]>> \in keys}

\* The flag occurs exactly once in v.
Once(v, keys) == Cardinality(FlagIndices(v, keys)) = 1

\* The index of the only occurrence.
TheIndex(v, keys) == CHOOSE i \in FlagIndices(v, keys) : TRUE

\* v has exactly n positional tokens.
HasPositionals(v, n) == Cardinality(PositionalIndices(v)) = n

SandBoxFlag == { <<"--", "sand-box">> }
FileFlag == { <<"--", "file">>, <<"-", "f">> }
PortFlag == { <<"--", "kata-debug-port">>, <<"-", "p">> }
JsonFlag == { <<"--", "json">> }
V6Flag == { <<"--", "v6">> }

\* The value the flag at index i brings: attached (--n=v, -cv, -c=v) or the
\* next token.
SuppliedAt(v, i) ==
  LET t == v[i]
  IN IF t[1] = "--"
     THEN (IF Len(t) >= 3 THEN After(t, 3)
           ELSE IF i < Len(v) THEN v[i + 1] ELSE <<>>)
     ELSE IF Len(t) >= 3 /\ t[3] = "=" THEN After(t, 3)
     ELSE IF Len(t) >= 3 THEN After(t, 2)
     ELSE IF i < Len(v) THEN v[i + 1] ELSE <<>>

\* The tokens of the vector behind the words that named the command.
LeafArgs == After(argv, Len(Tag))

-----------------------------------------------------------------------------
(* Properties *)

\* The payload of each invocation variant.
PayloadFields(tag) ==
  IF tag = <<"Env">> THEN {"json", "file"}
  ELSE IF tag = <<"Exec">> THEN {"sandbox_id", "vport"}
  ELSE IF tag = <<"Iptables", "Get">> THEN {"sandbox_id", "v6"}
  ELSE IF tag = <<"Iptables", "Set">> THEN {"sandbox_id", "v6", "file"}
  ELSE IF tag = <<"DirectVolume", "Add">> THEN {"volume_path", "mount_info"}
  ELSE IF tag \in {<<"DirectVolume", "Remove">>, <<"DirectVolume", "Stats">>}
  THEN {"volume_path"}
  ELSE IF tag = <<"DirectVolume", "Resize">>
  THEN {"volume_path", "resize_size"}
  ELSE {}

\* The variants an invocation can be.
Variants ==
  { <<"Env">>, <<"Exec">>, <<"Factory">>, <<"Version">>,
    <<"Iptables", "Get">>, <<"Iptables", "Set">>,
    <<"DirectVolume", "Add">>, <<"DirectVolume", "Remove">>,
    <<"DirectVolume", "Stats">>, <<"DirectVolume", "Resize">>,
    <<"Metrics", "MetricsArgs">> }
  \cup { <<"Check", c>> : c \in {"All", "NoNetworkChecks", "CheckVersionOnly",
                                 "OnlyListReleases", "IncludeAllReleases",
                                 "List"} }

\* C1 (totality): wherever the vector ends the run has an outcome, and a run
\* that ended has exactly one outcome: an invocation of one variant with
\* every payload field of that variant set (and no exit), a usage failure
\* (non-zero exit, no invocation), or the help outcome (exit 0, no
\* invocation).
C1_Totality ==
  /\ Len(outcome) <= 1
  /\ Running => Finish(Cur).kind \in {"ok", "usage", "help"}
  /\ Done => /\ Out.kind \in {"ok", "usage", "help"}
             /\ Out.kind = "ok" <=> Out.inv # NoValue
             /\ Out.kind = "ok" =>
                  /\ Tag \in Variants
                  /\ DOMAIN Fields = PayloadFields(Tag)
                  /\ Out.exit = <<>>
             /\ Out.kind = "usage" => Len(Out.exit) = 1 /\ Out.exit[1] # 0
             /\ Out.kind = "help" => Out.exit = <<0>>

\* C1 witness: a complete direct-volume add invocation.
C1_Witness ==
  /\ Succeeded
  /\ Tag = <<"DirectVolume", "Add">>
  /\ Fields.volume_path = <<"s1">>
  /\ Fields.mount_info = <<"2","0","4","8">>

\* C2 as claimed: in a successful parse every required string field is a
\* non-empty string.
C2_RequiredNonEmpty ==
  Succeeded =>
    \A f \in DOMAIN Fields \cap {"sandbox_id", "volume_path", "mount_info"} :
      Fields[f] # <<>>

\* C2 as amended: in a successful parse every required string field is
\* present and is exactly the token the operator supplied for it, so it is
\* empty exactly when the operator passed the empty token.
C2_RequiredAsSupplied ==
  Succeeded =>
    /\ Tag = <<"Exec">> =>
         /\ HasPositionals(LeafArgs, 1)
         /\ Fields.sandbox_id = Positional(LeafArgs, 1)
    /\ Tag \in {<<"DirectVolume", "Remove">>, <<"DirectVolume", "Stats">>} =>
         /\ HasPositionals(LeafArgs, 1)
         /\ Fields.volume_path = Positional(LeafArgs, 1)
    /\ Tag = <<"DirectVolume", "Add">> =>
         /\ HasPositionals(LeafArgs, 2)
         /\ Fields.volume_path = Positional(LeafArgs, 1)
         /\ Fields.mount_info = Positional(LeafArgs, 2)
    /\ Tag = <<"DirectVolume", "Resize">> =>
         /\ HasPositionals(LeafArgs, 2)
         /\ Fields.volume_path = Positional(LeafArgs, 1)
    /\ Tag \in {<<"Iptables", "Get">>, <<"Iptables", "Set">>} =>
         /\ Once(LeafArgs, SandBoxFlag)
         /\ Fields.sandbox_id
              = SuppliedAt(LeafArgs, TheIndex(LeafArgs, SandBoxFlag))
    /\ Tag = <<"Iptables", "Get">> => HasPositionals(LeafArgs, 0)
    /\ Tag = <<"Iptables", "Set">> =>
         /\ HasPositionals(LeafArgs, 1)
         /\ Fields.file = Positional(LeafArgs, 1)

\* C2 witness: exec with the empty token as sandbox id succeeds.
C2_Witness ==
  /\ Succeeded
  /\ argv = << <<"exec">>, <<>> >>
  /\ Fields.sandbox_id = <<>>

\* The numeral a value denotes: sign and leading zeros removed.
Canonical(v) == StripZeros(IF v # <<>> /\ v[1] = "+" THEN Tail(v) ELSE v)

\* C3 (defaults): in a successful parse an optional field whose flag does not
\* occur has its default (json = false, file = none, v6 = false,
\* vport = 1026), and a field whose flag occurs carries what was supplied
\* (--json / --v6 present means true).
C3_Defaults ==
  Succeeded =>
    /\ Tag = <<"Env">> =>
         /\ Fields.json = (FlagIndices(LeafArgs, JsonFlag) # {})
         /\ IF FlagIndices(LeafArgs, FileFlag) = {}
            THEN Fields.file = <<>>
            ELSE /\ Once(LeafArgs, FileFlag)
                 /\ Fields.file
                      = <<SuppliedAt(LeafArgs, TheIndex(LeafArgs, FileFlag))>>
    /\ Tag = <<"Exec">> =>
         IF FlagIndices(LeafArgs, PortFlag) = {}
         THEN Fields.vport = <<"1", "0", "2", "6">>
         ELSE /\ Once(LeafArgs, PortFlag)
              /\ Fields.vport
                   = Canonical(SuppliedAt(LeafArgs,
                                          TheIndex(LeafArgs, PortFlag)))
    /\ Tag \in {<<"Iptables", "Get">>, <<"Iptables", "Set">>} =>
         Fields.v6 = (FlagIndices(LeafArgs, V6Flag) # {})

\* C3 witness: exec without -p has the default port.
C3_Witness ==
  /\ Succeeded
  /\ argv = << <<"exec">>, <<"s1">> >>
  /\ Fields.vport = <<"1", "0", "2", "6">>

\* The leaf the first words of v name, <<>> when they name none with
\* arguments.
NamedLeaf(v) ==
  IF Len(v) >= 1 /\ v[1] = <<"exec">> THEN <<"Exec">>
  ELSE IF Len(v) >= 1 /\ v[1] = <<"env">> THEN <<"Env">>
  ELSE IF Len(v) >= 2 /\ v[1] = <<"iptables">> /\ v[2] = <<"get">>
  THEN <<"Iptables", "Get">>
  ELSE IF Len(v) >= 2 /\ v[1] = <<"iptables">> /\ v[2] = <<"set">>
  THEN <<"Iptables", "Set">>
  ELSE IF Len(v) >= 2 /\ v[1] = <<"direct-volume">> /\ v[2] = <<"add">>
  THEN <<"DirectVolume", "Add">>
  ELSE IF Len(v) >= 2 /\ v[1] = <<"direct-volume">> /\ v[2] = <<"remove">>
  THEN <<"DirectVolume", "Remove">>
  ELSE IF Len(v) >= 2 /\ v[1] = <<"direct-volume">> /\ v[2] = <<"stats">>
  THEN <<"DirectVolume", "Stats">>
  ELSE IF Len(v) >= 2 /\ v[1] = <<"direct-volume">> /\ v[2] = <<"resize">>
  THEN <<"DirectVolume", "Resize">>
  ELSE <<>>

NamedArgs(v) == After(v, Len(NamedLeaf(v)))

\* Number of positionals each leaf declares as required.
RequiredPositionals(leaf) ==
  IF leaf \in {<<"DirectVolume", "Add">>, <<"DirectVolume", "Resize">>}
  THEN 2
  ELSE IF leaf \in {<<"Exec">>, <<"Iptables", "Set">>,
                    <<"DirectVolume", "Remove">>, <<"DirectVolume", "Stats">>}
  THEN 1
  ELSE 0

\* A required flag or positional of the named leaf is absent from v.
RequiredAbsent(v) ==
  \/ /\ NamedLeaf(v) \in {<<"Iptables", "Get">>, <<"Iptables", "Set">>}
     /\ FlagIndices(NamedArgs(v), SandBoxFlag) = {}
  \/ /\ NamedLeaf(v) # <<>>
     /\ Cardinality(PositionalIndices(NamedArgs(v)))
          < RequiredPositionals(NamedLeaf(v))

\* C4 as claimed: a vector that lacks a required flag or positional of its
\* leaf ends in a usage failure, whatever else it contains.
C4_MissingIsUsage == Done /\ RequiredAbsent(argv) => Out.kind = "usage"

\* C4 as amended: a vector that lacks a required flag or positional of its
\* leaf never yields an invocation; read to its end it is a usage failure,
\* and the only other outcome is the help outcome, when the last token read
\* was -h / --help.
C4_MissingNeverParsed ==
  Done /\ RequiredAbsent(argv) =>
    /\ Out.kind # "ok"
    /\ Out.inv = NoValue
    /\ eof => Out.kind = "usage"
    /\ Out.kind # "usage" =>
         Out.kind = "help" /\ argv[Len(argv)] \in HelpFlags

\* C4 witness: `iptables set s1`, --sand-box absent.
C4_Witness ==
  /\ Done
  /\ argv = << <<"iptables">>, <<"set">>, <<"s1">> >>
  /\ Out.kind = "usage"
  /\ Out.diag = "MissingRequired"

\* v is a decimal numeral (digits only, at least one, an optional + in
\* front) that does not exceed max.
NumeralWithin(v, max) ==
  LET body == IF v # <<>> /\ v[1] = "+" THEN Tail(v) ELSE v
  IN /\ body # <<>>
     /\ \A i \in 1..Len(body) : body[i] \in Digits
     /\ NumLeq(StripZeros(body), max)

PlainToken(t) == ~LooksLikeFlag(t) /\ t # <<"--">>

HelpRead ==
  /\ Len(argv) >= 1
  /\ argv[Len(argv)] \in HelpFlags
  /\ EscapeAt(argv) > Len(argv)
  /\ mode = "args"

\* C6 as claimed: an empty vector, and a vector whose first token is
\* -h / --help, give the top-level help with exit code 0; a -h / --help read
\* at any nesting level gives the help outcome with exit code 0, also when
\* required arguments are missing.
C6_HelpExitZero ==
  /\ Done /\ argv = <<>> => Out.kind = "help" /\ Out.exit = <<0>>
  /\ Done /\ Len(argv) >= 1 /\ argv[1] \in HelpFlags =>
       Out.kind = "help" /\ Out.exit = <<0>> /\ cmd = <<>>
  /\ Done /\ HelpRead => Out.kind = "help" /\ Out.exit = <<0>>

\* C6 as amended: an empty vector prints the top-level help as a usage
\* failure, on standard error with a non-zero exit code (2); a vector whose
\* first token is -h / --help gives the top-level help with exit code 0; a
\* -h / --help read at any nesting level gives the help outcome with exit
\* code 0, also when required arguments are missing.
C6_HelpOutcome ==
  /\ Done /\ argv = <<>> =>
       /\ Out.kind = "usage"
       /\ Out.text = "help"
       /\ Out.stream = "stderr"
       /\ Out.exit = <<2>>
  /\ Done /\ Len(argv) >= 1 /\ argv[1] \in HelpFlags =>
       Out.kind = "help" /\ Out.exit = <<0>> /\ cmd = <<>>
  /\ Done /\ HelpRead => Out.kind = "help" /\ Out.exit = <<0>>

\* C6 witness: `exec -h`, the required sandbox id missing.
C6_Witness ==
  /\ Done
  /\ argv = << <<"exec">>, <<"-", "h">> >>
  /\ Out.kind = "help"
  /\ Out.exit = <<0>>

\* The verb and subcommand table of the command line.
VerbWords ==
  { <<"check">>, <<"direct-volume">>, <<"env">>, <<"exec">>, <<"factory">>,
    <<"iptables">>, <<"metrics">>, <<"version">> }

SubWords(verb) ==
  IF verb = <<"check">>
  THEN { <<"all">>, <<"no-network-checks">>, <<"check-version-only">>,
         <<"only-list-releases">>, <<"include-all-releases">>, <<"list">> }
  ELSE IF verb = <<"direct-volume">>
  THEN { <<"add">>, <<"remove">>, <<"stats">>, <<"resize">> }
  ELSE IF verb = <<"iptables">> THEN { <<"get">>, <<"set">> }
  ELSE IF verb = <<"metrics">> THEN { <<"metrics-args">> }
  ELSE {}

\* The words that name the command at `path`.
Names(path) ==
  IF Len(path) = 0 THEN <<>>
  ELSE IF Len(path) = 1 THEN << <<Verbs[path[1]]>> >>
  ELSE << <<Verbs[path[1]]>>, <<Subcommands(<<path[1]>>)[path[2]]>> >>

\* The tag of a successful parse is the verb, or verb and subcommand, the
\* first tokens name, one subcommand exactly under the verbs that have them.
TagFollowsTokens ==
  Succeeded =>
    /\ Len(Tag) \in {1, 2}
    /\ Names(Tag) = SubSeq(argv, 1, Len(Tag))
    /\ argv[1] \in VerbWords
    /\ Len(Tag) = 2 <=> SubWords(argv[1]) # {}
    /\ Len(Tag) = 2 => argv[2] \in SubWords(argv[1])

\* Every word of the table is recognised where it stands.
TableRecognised ==
  /\ Len(argv) >= 1 /\ argv[1] \in VerbWords =>
       Len(cmd) >= 1 /\ Names(<<cmd[1]>>) = <<argv[1]>>
  /\ Len(argv) >= 2 /\ argv[1] \in VerbWords /\ argv[2] \in SubWords(argv[1])
       => Len(cmd) = 2 /\ Names(cmd) = SubSeq(argv, 1, 2)

\* The first token, or the token behind a verb with subcommands, is none of
\* `allowed`.
OutsideTable(allowed) ==
  \/ Len(argv) >= 1 /\ argv[1] \notin VerbWords \cup allowed
  \/ /\ Len(argv) >= 2
     /\ argv[1] \in VerbWords
     /\ SubWords(argv[1]) # {}
     /\ argv[2] \notin SubWords(argv[1]) \cup allowed

\* C7 as claimed: the tag of a successful parse is <verb>/<subcmd> as the
\* tokens name them in the table, and a first token or subcommand token
\* outside the table (the help flags of C6 aside) is a usage failure.
C7_TableOnly ==
  /\ TagFollowsTokens
  /\ TableRecognised
  /\ Done /\ OutsideTable(HelpFlags) => Out.kind = "usage"

\* C7 as amended: the tag of a successful parse is <verb>/<subcmd> as the
\* tokens name them in the table; a first token or subcommand token outside
\* the table is a usage failure, except the word `help`, which every command
\* with subcommands also accepts and which never yields an invocation:
\* `help` alone ends in the help outcome with exit code 0.
C7_TableAndHelp ==
  /\ TagFollowsTokens
  /\ TableRecognised
  /\ Done /\ OutsideTable(HelpFlags \cup {<<"help">>}) => Out.kind = "usage"
  /\ Done /\ OutsideTable(HelpFlags) => Out.kind # "ok"
  /\ Done /\ argv = << <<"help">> >> => Out.kind = "help" /\ Out.exit = <<0>>

\* C7 witness: `check list` parsed as Check/List.
C7_Witness ==
  /\ Succeeded
  /\ argv = << <<"check">>, <<"list">> >>
  /\ Tag = <<"Check", "List">>

\* The flags each leaf declares.
DeclaredFlags(leaf) ==
  IF leaf = <<"Env">> THEN JsonFlag \cup FileFlag
  ELSE IF leaf = <<"Exec">> THEN PortFlag
  ELSE IF leaf \in {<<"Iptables", "Get">>, <<"Iptables", "Set">>}
  THEN SandBoxFlag \cup V6Flag
  ELSE {}

\* The last token read is a flag the command does not declare.
UndeclaredFlagRead ==
  /\ Len(argv) >= 1
  /\ mode = "args"
  /\ FlagAt(argv, Len(argv))
  /\ argv[Len(argv)] \notin HelpFlags
  /\ <<argv[Len(argv)][1], argv[Len(argv)][2]>> \notin DeclaredFlags(cmd)

\* The vector holds more positionals than the leaf declares.
ExtraPositionalRead ==
  /\ mode = "args"
  /\ cmd \in Variants
  /\ Cardinality(PositionalIndices(After(argv, Len(cmd))))
       > RequiredPositionals(cmd)

\* C8 (unexpected tokens are rejected): a flag the command in scope does not
\* declare, and a positional beyond those the leaf declares, end the run in
\* a usage failure; behind factory and version every token but -h / --help
\* and the `--` separator does.
C8_UnexpectedRejected ==
  /\ UndeclaredFlagRead => Done /\ Out.kind = "usage"
  /\ ExtraPositionalRead => Done /\ Out.kind = "usage"
  /\ /\ Len(argv) >= 2
     /\ argv[1] \in {<<"factory">>, <<"version">>}
     /\ argv[2] \notin HelpFlags \cup {<<"--">>}
     => Done /\ Out.kind = "usage"

\* C8 witness: a second positional behind exec.
C8_Witness ==
  /\ Done
  /\ argv = << <<"exec">>, <<"s1">>, <<"s1">> >>
  /\ Out.kind = "usage"
  /\ Out.diag = "UnexpectedArgument"

\* awaiting-verb = 0, awaiting-args = 1, terminal = 2.
Rank ==
  IF Done THEN 2
  ELSE IF mode = "args" /\ SubcommandRequired(cmd) THEN 0
  ELSE 1

IsPrefix(a, b) == Len(a) <= Len(b) /\ SubSeq(b, 1, Len(a)) = a

\* C9 (parser state machine): every step moves forward (awaiting-verb, then
\* awaiting-args, then terminal; the command path and the vector only grow),
\* a terminal outcome is complete, failed or help and no later token changes
\* it (so a failed run never completes), and every run reaches a terminal
\* state.
C9_StateMachine ==
  /\ [][/\ Rank' >= Rank
        /\ IsPrefix(cmd, cmd')
        /\ IsPrefix(argv, argv')
        /\ Done => outcome' = outcome /\ argv' = argv]_vars
  /\ [](Done => Out.kind \in {"ok", "usage", "help"})
  /\ <>(Done \/ conv # <<>>)

\* C9 witness: a failed run with a token left unread.
C9_Witness ==
  /\ Done
  /\ Out.kind = "usage"
  /\ unread > 0

\* What from_str returns: Get and Set with empty fields on exactly "Get" and
\* "Set", an error on any other string.
FromStrAsDocumented ==
  conv # <<>> =>
    LET s == conv[1].arg
        r == conv[1].res
    IN /\ s = "Get" =>
            /\ r.ok
            /\ r.val.tag = <<"Iptables", "Get">>
            /\ DOMAIN r.val.fields = {"sandbox_id", "v6"}
            /\ r.val.fields.sandbox_id = <<>>
            /\ r.val.fields.v6 = FALSE
       /\ s = "Set" =>
            /\ r.ok
            /\ r.val.tag = <<"Iptables", "Set">>
            /\ DOMAIN r.val.fields = {"sandbox_id", "v6", "file"}
            /\ r.val.fields.sandbox_id = <<>>
            /\ r.val.fields.v6 = FALSE
            /\ r.val.fields.file = <<>>
       /\ s \notin {"Get", "Set"} =>
            ~r.ok /\ r.val = NoValue /\ r.err = <<"Invalid argument: ", s>>

\* Parsing the command line never calls from_str.
ParsingNeverConverts == argv # <<>> \/ Done => conv = <<>>

\* C10 as claimed: from_str is total and case-sensitive, it is the only way
\* an IpTablesArguments with an empty required field arises, and parsing
\* never calls it.
C10_OnlySourceOfEmpty ==
  /\ FromStrAsDocumented
  /\ ParsingNeverConverts
  /\ Succeeded /\ Tag[1] = "Iptables" =>
       /\ Fields.sandbox_id # <<>>
       /\ Tag[2] = "Set" => Fields.file # <<>>

\* C10 as amended: from_str is total and case-sensitive (Get and Set with
\* empty fields on exactly "Get" and "Set", an error on every other string,
\* "get" and "set" included) and parsing never calls it; an
\* IpTablesArguments with an empty required field also arises from parsing,
\* when the operator passes the empty token.
C10_FromStr ==
  /\ FromStrAsDocumented
  /\ ParsingNeverConverts
  /\ Finish(ParseToken(ParseToken(ParseToken(StartParser, <<"iptables">>),
                                  <<"get">>),
                       <<"--", "sand-box", "=">>)).inv
       = FromStr("Get").val

\* C10 witness: the command line spelling "get" is an error.
C10_Witness ==
  /\ conv # <<>>
  /\ conv[1].arg = "get"
  /\ ~conv[1].res.ok

=============================================================================
